---- MODULE Spec2Model ----
(***************************************************************************)
(* A model of classes/DynamicDisplay.py: the DynamicDisplay controller,    *)
(* the refresh process that renders the shared pixel_array to the strip,   *)
(* and the animation processes (run_group_on_item) that write audio        *)
(* reactive colours into it.                                               *)
(*                                                                         *)
(* Processes are multiprocessing.Process children: a child works on the    *)
(* copy of the controller object it was given when it was started (its own *)
(* groups dict, its own light_refresh_loop handle) and on the shared       *)
(* memory Array that was the controller's pixel_array at that moment.      *)
(***************************************************************************)
EXTENDS Integers, Sequences, FiniteSets, TLC

(***************************************************************************)
(* Bounds of the model.                                                    *)
(***************************************************************************)
\* light_string.led_count, the strip length N given at construction.
LedCount == 10
\* How many pattern starts (dual_beats / dual_beats_with_tatums) a run makes.
MaxStarts == 2
\* How many reinitialize() calls a run makes.
MaxReinit == 2
\* How many animation processes a run creates in total.
MaxAnim == 4
\* A process terminated in the middle of a fade has completed some of the
\* fade writes: 0..MaxCut of them, or all FadeSteps of them.
MaxCut == 2
\* How many create_group_of_every_nth calls and how many update_group calls
\* the client makes directly in a run of SpecGroups.
MaxCreates == 2
MaxUpdates == 2

(***************************************************************************)
(* Program constants.                                                      *)
(***************************************************************************)
\* range(100) of the fade loop, and the divisor of i / 100.
FadeSteps == 100
\* Process handle None.
NoProc == 0

Pixels == 0 .. (LedCount - 1)

(***************************************************************************)
(* Colours: rpi_ws281x.Color packs (red, green, blue) into one integer.    *)
(***************************************************************************)
Color(r, g, b) == (r * 65536) + (g * 256) + b

\* LedColor (classes/LedColor.py) is not part of the given sources: the
\* named colours, the unpacking and the linear interpolation follow the
\* specification's description of the colour palette collaborator.
LedColor_black == Color(0, 0, 0)
LedColor_green == Color(0, 255, 0)
LedColor_autumnOrange == Color(255, 100, 0)
LedColor_brightViolet == Color(200, 0, 255)
LedColor_fallYellow == Color(255, 200, 0)

get_rgb_value(c) == << c \div 65536, (c \div 256) % 256, c % 256 >>

\* interpolate_rgb(start, end, t) with t = i / FadeSteps, each channel
\* truncated to an integer.
interpolate_rgb(start, end, i) ==
    [ch \in 1..3 |-> start[ch] + (((end[ch] - start[ch]) * i) \div FadeSteps)]

rgb_black == << 0, 0, 0 >>

(***************************************************************************)
(* The audio analysis collaborator (classes/SpotifyAudioAnalysis.py, not   *)
(* part of the given sources), after the specification: a track duration   *)
(* in seconds, the track progress in milliseconds, per category the items  *)
(* {index, start, duration, confidence} and an average confidence.         *)
(* Confidence is in percent.                                               *)
(***************************************************************************)
Categories == {"beats", "bars", "tatums"}

Item(i, s, d, c) == [index |-> i, start |-> s, duration |-> d, confidence |-> c]

\* dict.get on a missing key: None.
None == Item(-1, 0, 0, 0)

\* The step by which the track progress is observed to advance.
TickMs == 1000

LongTrack ==
    [ track_duration |-> 4,
      items |-> [ beats  |-> << Item(0, 0, 1000, 80), Item(1, 1000, 1000, 30),
                                Item(2, 2000, 1000, 80), Item(3, 3000, 1000, 20) >>,
                  bars   |-> << Item(0, 0, 2000, 80), Item(1, 2000, 2000, 80) >>,
                  tatums |-> << Item(0, 0, 1000, 80), Item(1, 2000, 1000, 20) >> ],
      confidence_average |-> [beats |-> 60, bars |-> 60, tatums |-> 60] ]

ShortTrack ==
    [ track_duration |-> 1,
      items |-> [ beats  |-> << Item(0, 0, 1000, 80) >>,
                  bars   |-> << Item(0, 0, 1000, 80) >>,
                  tatums |-> << Item(0, 500, 500, 80) >> ],
      confidence_average |-> [beats |-> 60, bars |-> 60, tatums |-> 60] ]

VARIABLES
    groups,             \* self.groups: group name -> list of pixel numbers
    group_threads,      \* self.group_threads: group name -> process handle
    light_refresh_loop, \* self.light_refresh_loop: process handle or None
    pixel_array,        \* self.pixel_array: the shared Array the controller holds
    arrays,             \* every shared Array created so far: id -> pixel -> colour
    procs,              \* every process started so far, by handle
    strip,              \* what the hardware strip shows: pixel -> colour
    track,              \* the audio analysis of the track being played
    progress,           \* get_track_progress_seconds()
    playing,            \* FALSE: get_active_binary_search() returns nothing
    calls,              \* how many calls of each kind the client has made
    limits,             \* how many calls of each kind the client makes at most
    lastOp              \* the controller call that has just returned

vars == << groups, group_threads, light_refresh_loop, pixel_array, arrays,
           procs, strip, track, progress, playing, calls, limits, lastOp >>

ctrl == << groups, group_threads, light_refresh_loop, pixel_array >>
env == << track, progress, playing, limits >>

(***************************************************************************)
(* Helpers on dicts and lists.                                             *)
(***************************************************************************)
EmptyDict == << >>

Get(d, k) == IF k \in DOMAIN d THEN d[k] ELSE None

Put(d, k, v) == [x \in (DOMAIN d) \cup {k} |-> IF x = k THEN v ELSE d[x]]

Range(s) == {s[i] : i \in DOMAIN s}

\* Array("l", led_count): zero initialised.
NewArray == [i \in Pixels |-> 0]

\* get_active_binary_search(): per category the item whose interval holds
\* the progress; nothing at all when there is no playback.
ActiveIn(tr, cat, prog) ==
    {it \in Range(tr.items[cat]) : it.start <= prog /\ prog < it.start + it.duration}

get_active_binary_search(tr, prog, play) ==
    LET present == {cat \in Categories : ActiveIn(tr, cat, prog) # {}}
    IN  IF ~play \/ present = {}
        THEN EmptyDict
        ELSE [cat \in present |-> CHOOSE it \in ActiveIn(tr, cat, prog) : TRUE]

(***************************************************************************)
(* create_group_of_every_nth: the list of i in range(led_count) with       *)
(* i % n == offset, in the order the loop appends them.                    *)
(***************************************************************************)
RECURSIVE EveryNthFrom(_, _, _)
EveryNthFrom(i, n, offset) ==
    IF i >= LedCount
    THEN << >>
    ELSE (IF i % n = offset THEN << i >> ELSE << >>) \o EveryNthFrom(i + 1, n, offset)

\* A variant that scans range(1, led_count).
create_group_of_every_nth_from_one(grps, n, offset, group_name) ==
    Put(grps, group_name, EveryNthFrom(1, n, offset))

create_group_of_every_nth(grps, n, offset, group_name) ==
    Put(grps, group_name, EveryNthFrom(0, n, offset))

(***************************************************************************)
(* update_group: for pixel_n in self.groups[group_name]:                   *)
(*                   self.pixel_array[pixel_n] = color                     *)
(***************************************************************************)
RECURSIVE WritePixels(_, _, _)
WritePixels(arr, pixel_list, color) ==
    IF pixel_list = << >>
    THEN arr
    ELSE WritePixels([arr EXCEPT ![Head(pixel_list)] = color], Tail(pixel_list), color)

\* A variant that skips the first pixel of the group.
update_group_skips_first(arr, grps, group_name, color) ==
    WritePixels(arr, Tail(grps[group_name]), color)

update_group(arr, grps, group_name, color) ==
    WritePixels(arr, grps[group_name], color)

(***************************************************************************)
(* The fade loop of run_group_on_item, iterations from..(to - 1): each     *)
(* writes the colour interpolate_rgb(start, black, i / 100) to the group.  *)
(***************************************************************************)
\* Iteration i of the fade loop.
FadeWrite(arr, grps, group_name, color, i) ==
    LET mid_color == interpolate_rgb(get_rgb_value(color), rgb_black, i)
    IN  update_group(arr, grps, group_name,
                     Color(mid_color[1], mid_color[2], mid_color[3]))

\* Iterations from..(to - 1) in order.  Every iteration writes the whole
\* group, so the array they leave is the one the last of them leaves.
FadeWrites(arr, grps, group_name, color, from, to) ==
    IF from >= to
    THEN arr
    ELSE FadeWrite(arr, grps, group_name, color, to - 1)

(***************************************************************************)
(* Processes.  A process record holds what the child was given when it was *)
(* started (the controller's pixel_array, light_refresh_loop and groups of *)
(* that moment, and the arguments of its target) and where it stands.      *)
(*   pc: "refresh"  the refresh loop                                       *)
(*       "loop"     run_group_on_item, about to evaluate the while test    *)
(*       "idle"     in time.sleep(0.01) of the confidence gate             *)
(*       "fade"     after update_group(group_name, color), in the fade     *)
(*       "exited"   the target returned                                    *)
(*       "killed"   terminate() reached the running process                *)
(***************************************************************************)
RefreshProcess(arr) ==
    [ kind |-> "refresh", alive |-> TRUE, pc |-> "refresh",
      pixel_array |-> arr, light_refresh_loop |-> NoProc, groups |-> EmptyDict,
      group_name |-> "", nth_item |-> 1, item |-> "", colors |-> << >>,
      color_change_on |-> "",
      last_active |-> EmptyDict, now_active |-> EmptyDict, color |-> LedColor_black ]

AnimationProcess(arr, refresh, grps, group_name, nth_item, item, colors, color_change_on) ==
    [ kind |-> "anim", alive |-> TRUE, pc |-> "loop",
      pixel_array |-> arr, light_refresh_loop |-> refresh, groups |-> grps,
      group_name |-> group_name, nth_item |-> nth_item, item |-> item,
      colors |-> colors, color_change_on |-> color_change_on,
      last_active |-> EmptyDict, now_active |-> EmptyDict, color |-> LedColor_black ]

\* A process that has ended keeps no locals.
Ended(p, how) ==
    [p EXCEPT !.alive = FALSE, !.pc = how, !.last_active = EmptyDict,
              !.now_active = EmptyDict, !.color = LedColor_black]

Handles == DOMAIN procs
RunningAnimations == {i \in Handles : procs[i].alive /\ procs[i].kind = "anim"}
RunningRefreshers == {i \in Handles : procs[i].alive /\ procs[i].kind = "refresh"}

\* How many fade writes a process terminated in mid-fade has completed.
CutPoints == (0 .. MaxCut) \cup {FadeSteps}

\* The minimum of a non-empty set of handles.
MinOf(S) == CHOOSE x \in S : \A y \in S : x <= y

\* Process.terminate() on every handle in S: a running process ends where it
\* stands; one in mid-fade has completed cut[i] of its fade writes.
RECURSIVE TerminatedArrays(_, _, _, _)
TerminatedArrays(arrs, ps, S, cut) ==
    IF S = {}
    THEN arrs
    ELSE LET i == MinOf(S)
             p == ps[i]
             next == IF p.alive /\ p.pc = "fade"
                     THEN [arrs EXCEPT ![p.pixel_array] =
                              FadeWrites(@, p.groups, p.group_name, p.color, 0, cut[i])]
                     ELSE arrs
         IN  TerminatedArrays(next, ps, S \ {i}, cut)

TerminatedProcs(ps, S) ==
    [i \in DOMAIN ps |-> IF i \in S /\ ps[i].alive THEN Ended(ps[i], "killed") ELSE ps[i]]

Fading(ps, S) == {i \in S : ps[i].alive /\ ps[i].pc = "fade"}

(***************************************************************************)
(* The controller.                                                         *)
(***************************************************************************)
Op(op, name, n, offset, color) ==
    [op |-> op, name |-> name, n |-> n, offset |-> offset, color |-> color]

NoOp == Op("none", "", 0, 0, 0)
Called(op) == Op(op, "", 0, 0, 0)

\* terminate_all_running_process: the handles it calls terminate() on.
terminate_all_running_process(refresh, threads) ==
    IF refresh = NoProc
    THEN {}
    ELSE {refresh} \cup {threads[key] : key \in DOMAIN threads}

\* A variant that hands the refresh process the array the controller held
\* before the call.
start_refresh_thread_stale(ps, arr) == Append(ps, RefreshProcess(pixel_array))

\* __start_refresh_thread: Process(target=__refresh_loop, args=[pixel_array]).start()
start_refresh_thread(ps, arr) == Append(ps, RefreshProcess(arr))

\* __init__
Init0 ==
    /\ groups = EmptyDict
    /\ group_threads = EmptyDict
    /\ light_refresh_loop = NoProc
    /\ pixel_array = 1
    /\ arrays = << NewArray >>
    /\ procs = << >>
    /\ strip = [i \in Pixels |-> 0]
    /\ progress = 0
    /\ playing = TRUE
    /\ calls = [starts |-> 0, reinits |-> 0, creates |-> 0, updates |-> 0]
    /\ lastOp = NoOp

TerminateAll ==
    /\ LET S == terminate_all_running_process(light_refresh_loop, group_threads)
       IN  \E cut \in [Fading(procs, S) -> CutPoints] :
               /\ procs' = TerminatedProcs(procs, S)
               /\ arrays' = TerminatedArrays(arrays, procs, S, cut)
    /\ lastOp' = Called("terminate_all")
    /\ UNCHANGED << ctrl, strip, env, calls >>

Reinitialize ==
    /\ calls.reinits < limits.reinits
    /\ LET S == terminate_all_running_process(light_refresh_loop, group_threads)
       IN  \E cut \in [Fading(procs, S) -> CutPoints] :
               /\ arrays' = Append(TerminatedArrays(arrays, procs, S, cut), NewArray)
               /\ pixel_array' = Len(arrays) + 1
               /\ procs' = start_refresh_thread(TerminatedProcs(procs, S), Len(arrays) + 1)
               /\ light_refresh_loop' = Len(procs) + 1
    /\ calls' = [calls EXCEPT !.reinits = @ + 1]
    /\ lastOp' = Called("reinitialize")
    /\ UNCHANGED << groups, group_threads, strip, env >>


\* __start_thread_for_group: the new process takes the next handle, which
\* replaces whatever group_threads held under group_name.
start_thread_for_group(st, group_name, nth_item, item, colors, color_change_on) ==
    [ procs |-> Append(st.procs,
                       AnimationProcess(pixel_array, light_refresh_loop, st.groups,
                                        group_name, nth_item, item, colors,
                                        color_change_on)),
      group_threads |-> Put(st.group_threads, group_name, Len(st.procs) + 1),
      groups |-> st.groups ]

AllBeatColors == << Color(255, 0, 0), Color(255, 255, 255) >>
SecondBeatColors == << LedColor_green, LedColor_autumnOrange,
                       LedColor_brightViolet, LedColor_fallYellow >>
TatumColors == << LedColor_brightViolet >>

\* dual_beats: the registry, the handles and the processes when it returns.
dual_beats ==
    LET g1 == create_group_of_every_nth(EmptyDict, 2, 0, "all_beat")
        g2 == create_group_of_every_nth(g1, 2, 1, "every_2nd_beat")
        s0 == [procs |-> procs, group_threads |-> group_threads, groups |-> g2]
        s1 == start_thread_for_group(s0, "all_beat", 1, "beats", AllBeatColors, "beats")
    IN  start_thread_for_group(s1, "every_2nd_beat", 2, "beats", SecondBeatColors, "bars")

\* dual_beats_with_tatums
dual_beats_with_tatums ==
    LET g1 == create_group_of_every_nth(EmptyDict, 3, 0, "all_beat")
        g2 == create_group_of_every_nth(g1, 3, 1, "every_2nd_beat")
        g3 == create_group_of_every_nth(g2, 3, 2, "tatum")
        s0 == [procs |-> procs, group_threads |-> group_threads, groups |-> g3]
        s1 == start_thread_for_group(s0, "all_beat", 1, "beats", AllBeatColors, "beats")
        s2 == start_thread_for_group(s1, "every_2nd_beat", 2, "beats", SecondBeatColors, "bars")
    IN  start_thread_for_group(s2, "tatum", 1, "tatums", TatumColors, "bars")

StartPattern(op, st) ==
    /\ calls.starts < limits.starts
    /\ Cardinality({i \in DOMAIN st.procs : st.procs[i].kind = "anim"}) <= limits.anims
    /\ groups' = st.groups
    /\ group_threads' = st.group_threads
    /\ procs' = st.procs
    /\ calls' = [calls EXCEPT !.starts = @ + 1]
    /\ lastOp' = Called(op)
    /\ UNCHANGED << light_refresh_loop, pixel_array, arrays, strip, env >>

DualBeats == StartPattern("dual_beats", dual_beats)

DualBeatsWithTatums == StartPattern("dual_beats_with_tatums", dual_beats_with_tatums)

(***************************************************************************)
(* The refresh process: one cycle of __refresh_loop copies every slot of   *)
(* its pixel_array to the strip and shows it.                              *)
(***************************************************************************)
RefreshCycle(r) ==
    /\ r \in Handles
    /\ procs[r].alive
    /\ procs[r].kind = "refresh"
    /\ strip' = [i \in Pixels |-> arrays[procs[r].pixel_array][i]]
    /\ lastOp' = NoOp
    /\ UNCHANGED << ctrl, arrays, procs, env, calls >>

(***************************************************************************)
(* An animation process: run_group_on_item.                                *)
(***************************************************************************)
\* A variant whose while test is progress <= duration.
TrackEnded_past(tr, prog) == prog > tr.track_duration * 1000

\* The negation of the while test: the track has ended.
TrackEnded(tr, prog) == ~(prog < tr.track_duration * 1000)

\* A variant that indexes the palette by the trigger item.
SelectColor_by_trigger_item(p, now_active) ==
    LET cc == Get(now_active, p.color_change_on)
    IN  IF cc # None /\ ~(Get(p.last_active, p.color_change_on) = cc)
        THEN p.colors[(Get(now_active, p.item).index % Len(p.colors)) + 1]
        ELSE p.color

\* The colour after the colour change test of this iteration.  Every
\* process the controller starts is given a palette.
SelectColor(p, now_active) ==
    LET cc == Get(now_active, p.color_change_on)
    IN  IF cc # None /\ ~(Get(p.last_active, p.color_change_on) = cc)
        THEN p.colors[(cc.index % Len(p.colors)) + 1]
        ELSE p.color

\* A variant that only tests for an absent item.
ConfidenceGate_absent_only(tr, item, active_item) == active_item = None

\* not active_item or active_item["confidence"] < confidence_average[item] * 0.5
ConfidenceGate(tr, item, active_item) ==
    \/ active_item = None
    \/ 2 * active_item.confidence < tr.confidence_average[item]

\* A variant that takes every present item for a new one.
NewItem_always(last_active, item, active_item) == active_item # None

\* active_item and (not last_active.get(item) == active_item)
NewItem(last_active, item, active_item) ==
    active_item # None /\ ~(Get(last_active, item) = active_item)

\* A variant that applies every item.
StrideGate_always(active_item, nth_item) == TRUE

\* active_item["index"] % nth_item == 0
StrideGate(active_item, nth_item) == active_item.index % nth_item = 0

\* One pass of the while loop up to the point where the process next
\* sleeps or ends: the while test, the poll, the teardown on an empty
\* snapshot, the colour change, the confidence gate, and the activation's
\* update_group(group_name, color).
Poll(w) ==
    /\ w \in Handles
    /\ procs[w].alive
    /\ procs[w].kind = "anim"
    /\ procs[w].pc \in {"loop", "idle"}
    /\ LET p == procs[w]
           now_active == get_active_binary_search(track, progress, playing)
           color == SelectColor(p, now_active)
           active_item == Get(now_active, p.item)
       IN  IF TrackEnded(track, progress)
           THEN /\ procs' = [procs EXCEPT ![w] = Ended(p, "exited")]
                /\ UNCHANGED << arrays, strip >>
           ELSE IF now_active = EmptyDict
           THEN \* __terminate_string_refresh_loop(); light_string.set_solid(black)
                /\ procs' = [i \in Handles |->
                               IF i = w THEN Ended(p, "exited")
                               ELSE IF i = p.light_refresh_loop /\ procs[i].alive
                                    THEN Ended(procs[i], "killed")
                                    ELSE procs[i]]
                /\ strip' = [i \in Pixels |-> LedColor_black]
                /\ UNCHANGED arrays
           ELSE IF ConfidenceGate(track, p.item, active_item)
           THEN /\ procs' = [procs EXCEPT ![w] = [p EXCEPT !.pc = "idle", !.color = color]]
                /\ UNCHANGED << arrays, strip >>
           ELSE IF NewItem(p.last_active, p.item, active_item)
                   /\ StrideGate(active_item, p.nth_item)
           THEN /\ arrays' = [arrays EXCEPT ![p.pixel_array] =
                                 update_group(@, p.groups, p.group_name, color)]
                /\ procs' = [procs EXCEPT ![w] =
                                 [p EXCEPT !.pc = "fade", !.color = color,
                                           !.now_active = now_active]]
                /\ UNCHANGED strip
           ELSE /\ procs' = [procs EXCEPT ![w] =
                                 [p EXCEPT !.pc = "loop", !.color = color,
                                           !.last_active = now_active]]
                /\ UNCHANGED << arrays, strip >>
    /\ lastOp' = NoOp
    /\ UNCHANGED << ctrl, env, calls >>

\* A variant whose fade loop never ends.
Fade_never_ends(w) ==
    /\ w \in Handles
    /\ procs[w].alive
    /\ procs[w].pc = "fade"
    /\ LET p == procs[w]
       IN  arrays' = [arrays EXCEPT ![p.pixel_array] =
                         FadeWrites(@, p.groups, p.group_name, p.color, 0, FadeSteps)]
    /\ lastOp' = NoOp
    /\ UNCHANGED << ctrl, procs, strip, env, calls >>

\* The fade of an activation, for i in range(100), and the assignment
\* last_active = now_active that ends the iteration.  The FadeSteps writes
\* are one step here: the process reads nothing between them, and a
\* terminate() that lands between two of them is the cut of
\* TerminatedArrays.
Fade(w) ==
    /\ w \in Handles
    /\ procs[w].alive
    /\ procs[w].pc = "fade"
    /\ LET p == procs[w]
       IN  /\ arrays' = [arrays EXCEPT ![p.pixel_array] =
                            FadeWrites(@, p.groups, p.group_name, p.color, 0, FadeSteps)]
           /\ procs' = [procs EXCEPT ![w] =
                            [p EXCEPT !.pc = "loop", !.last_active = p.now_active,
                                      !.now_active = EmptyDict]]
    /\ lastOp' = NoOp
    /\ UNCHANGED << ctrl, strip, env, calls >>

(***************************************************************************)
(* The environment: time passes, playback stops.                           *)
(***************************************************************************)
Advance ==
    /\ progress < track.track_duration * 1000
    /\ progress' = progress + TickMs
    /\ lastOp' = NoOp
    /\ UNCHANGED << ctrl, arrays, procs, strip, track, playing, limits, calls >>

StopPlayback ==
    /\ playing
    /\ playing' = FALSE
    /\ lastOp' = NoOp
    /\ UNCHANGED << ctrl, arrays, procs, strip, track, progress, limits, calls >>

(***************************************************************************)
(* The system: the controller's lifecycle calls, the processes and the     *)
(* environment.                                                            *)
(***************************************************************************)
Limits(starts, reinits, anims) ==
    [starts |-> starts, reinits |-> reinits, anims |-> anims]

\* The lifecycle of the controller over a short track.
Init == Init0 /\ track = ShortTrack /\ limits = Limits(MaxStarts, MaxReinit, MaxAnim)

Next ==
    \/ Reinitialize
    \/ TerminateAll
    \/ DualBeats
    \/ DualBeatsWithTatums
    \/ \E r \in Handles : RefreshCycle(r)
    \/ \E w \in Handles : Poll(w)
    \/ \E w \in Handles : Fade(w)
    \/ Advance
    \/ StopPlayback

Spec == Init /\ [][Next]_vars

\* One pattern over a long track: the animation processes at work.
InitAnim == Init0 /\ track = LongTrack /\ limits = Limits(1, 1, MaxAnim)

SpecAnim == InitAnim /\ [][Next]_vars


\* The animation processes of one pattern left to themselves (no call
\* terminates them) under fair scheduling: a process that can take its next
\* step (its sleep is over) eventually takes it.
NextLive ==
    \/ DualBeats
    \/ DualBeatsWithTatums
    \/ \E w \in Handles : Poll(w)
    \/ \E w \in Handles : Fade(w)
    \/ Advance
    \/ StopPlayback

ProcIds == 1 .. MaxAnim

SpecLive ==
    /\ InitAnim
    /\ [][NextLive]_vars
    /\ \A w \in ProcIds : WF_vars(Poll(w)) /\ WF_vars(Fade(w))

(***************************************************************************)
(* The group registry used directly: the client creates groups and updates *)
(* them, with no process running.                                          *)
(***************************************************************************)
GroupNames == {"A", "B"}
RED == Color(255, 0, 0)
ClientColors == {RED, LedColor_green}

CreateGroup(n, offset, group_name) ==
    /\ calls.creates < MaxCreates
    /\ groups' = create_group_of_every_nth(groups, n, offset, group_name)
    /\ calls' = [calls EXCEPT !.creates = @ + 1]
    /\ lastOp' = Op("create_group_of_every_nth", group_name, n, offset, 0)
    /\ UNCHANGED << group_threads, light_refresh_loop, pixel_array, arrays,
                    procs, strip, env >>

\* self.groups[group_name] with a name that is not a key raises KeyError.
KeyError(grps, group_name) == group_name \notin DOMAIN grps

\* A variant that looks the group up with self.groups.setdefault(name, []).
UpdateGroup_setdefault(group_name, color) ==
    /\ calls.updates < MaxUpdates
    /\ groups' = IF KeyError(groups, group_name)
                 THEN Put(groups, group_name, << >>)
                 ELSE groups
    /\ arrays' = [arrays EXCEPT ![pixel_array] =
                     update_group(@, groups', group_name, color)]
    /\ calls' = [calls EXCEPT !.updates = @ + 1]
    /\ lastOp' = Op("update_group", group_name, 0, 0, color)
    /\ UNCHANGED << group_threads, light_refresh_loop, pixel_array, procs,
                    strip, env >>

\* update_group called by the client.  The lookup self.groups[group_name]
\* is evaluated before the first assignment of the loop: on an unknown name
\* the call raises with nothing written.
UpdateGroup(group_name, color) ==
    /\ calls.updates < MaxUpdates
    /\ IF KeyError(groups, group_name)
       THEN /\ lastOp' = Op("update_group raised KeyError", group_name, 0, 0, color)
            /\ UNCHANGED arrays
       ELSE /\ arrays' = [arrays EXCEPT ![pixel_array] =
                             update_group(@, groups, group_name, color)]
            /\ lastOp' = Op("update_group", group_name, 0, 0, color)
    /\ calls' = [calls EXCEPT !.updates = @ + 1]
    /\ UNCHANGED << ctrl, procs, strip, env >>

NextGroups ==
    \/ \E n \in 1 .. LedCount : \E offset \in 0 .. (n - 1) : \E name \in GroupNames :
           CreateGroup(n, offset, name)
    \/ \E name \in GroupNames : \E color \in ClientColors : UpdateGroup(name, color)

SpecGroups == Init /\ [][NextGroups]_vars


(***************************************************************************)
(* Properties.                                                             *)
(***************************************************************************)
AllZero(arr) == \A i \in DOMAIN arr : arr[i] = 0

\* The snapshot a poll made in the current state returns.
Snapshot == get_active_binary_search(track, progress, playing)

\* Process w is an animation process about to poll.
AtLoop(w) ==
    /\ w \in Handles
    /\ procs[w].kind = "anim"
    /\ procs[w].alive
    /\ procs[w].pc \in {"loop", "idle"}

\* The step is one of process w's own: its record changes, and not by a
\* terminate() from another process.
OwnStep(w) ==
    /\ w \in DOMAIN procs'
    /\ procs'[w] # procs[w]
    /\ procs'[w].pc # "killed"

\* C1: after terminate_all_running_process returns, neither the refresh
\* process nor any animation process the controller started is running,
\* whatever calls preceded it.
C1_TerminateAllStopsEverything ==
    lastOp.op = "terminate_all" =>
        RunningRefreshers = {} /\ RunningAnimations = {}

\* C2: after reinitialize returns, the controller's pixel_array has
\* led_count entries, all of them zero, and the refresh process that call
\* started is running and reads that array.
C2_ReinitializeFreshArrayAndRefresh ==
    lastOp.op = "reinitialize" =>
        /\ DOMAIN arrays[pixel_array] = 0 .. (LedCount - 1)
        /\ AllZero(arrays[pixel_array])
        /\ light_refresh_loop = Len(procs)
        /\ procs[light_refresh_loop].kind = "refresh"
        /\ procs[light_refresh_loop].alive
        /\ procs[light_refresh_loop].pixel_array = pixel_array

\* C2, its case: reinitialize has returned after animation processes wrote
\* colours into an earlier array.
C2_Witness ==
    /\ lastOp.op = "reinitialize"
    /\ \E a \in DOMAIN arrays : a # pixel_array /\ ~AllZero(arrays[a])

\* C3: after reinitialize returns, no animation process started before the
\* call is still running (reinitialize starts none itself).
C3_ReinitializeStopsAnimations ==
    lastOp.op = "reinitialize" => RunningAnimations = {}

\* The group names of the presets, in the order of their offsets.
PresetNames == << "all_beat", "every_2nd_beat", "tatum" >>

\* C4: after dual_beats or dual_beats_with_tatums returns, groups holds
\* exactly the groups of the preset, and the running animation processes
\* are exactly the ones this call started, one per group of the preset: no
\* two running processes animate the same group name, and every running
\* one is held in group_threads under its group.
C4_StartPatternOneWorkerPerGroup ==
    lastOp.op \in {"dual_beats", "dual_beats_with_tatums"} =>
        /\ LET n == IF lastOp.op = "dual_beats" THEN 2 ELSE 3
           IN  /\ DOMAIN groups = {PresetNames[k] : k \in 1 .. n}
               /\ \A k \in 1 .. n :
                      Range(groups[PresetNames[k]]) = {i \in Pixels : i % n = k - 1}
        /\ \A name \in DOMAIN groups :
               /\ name \in DOMAIN group_threads
               /\ group_threads[name] \in RunningAnimations
               /\ procs[group_threads[name]].group_name = name
        /\ \A w \in RunningAnimations :
               /\ procs[w].group_name \in DOMAIN groups
               /\ group_threads[procs[w].group_name] = w

\* C5: update_group(name, color) on a registered name sets every index of
\* the group to color and leaves every other index of pixel_array as it was.
C5_UpdateGroupWritesExactlyTheGroup ==
    [][lastOp'.op = "update_group" =>
          \A i \in Pixels :
              arrays'[pixel_array][i] =
                  IF \E k \in DOMAIN groups[lastOp'.name] : groups[lastOp'.name][k] = i
                  THEN lastOp'.color
                  ELSE arrays[pixel_array][i]]_vars

\* C5, its case: A is every 2nd pixel from 0, B every 2nd pixel from 1, B
\* was set to green, and update_group("A", RED) has just returned.
C5_Witness ==
    /\ lastOp = Op("update_group", "A", 0, 0, RED)
    /\ DOMAIN groups = {"A", "B"}
    /\ Len(groups["A"]) * 2 = LedCount
    /\ \A k \in DOMAIN groups["A"] : groups["A"][k] = 2 * (k - 1)
    /\ \A k \in DOMAIN groups["B"] : groups["B"][k] = 2 * (k - 1) + 1
    /\ \A i \in Pixels :
           arrays[pixel_array][i] = IF i % 2 = 0 THEN RED ELSE LedColor_green

\* C6: create_group_of_every_nth(n, offset, name) with 0 <= offset < n <= N
\* registers under name the indices i of [0, N) with i mod n = offset, in
\* ascending order with no duplicates; and the groups the same call makes
\* for the offsets 0..n-1 are pairwise disjoint and cover [0, N).
EveryNthOf(n, offset) ==
    create_group_of_every_nth(groups, n, offset, "every_nth")["every_nth"]

C6_EveryNthExactAndPartition ==
    lastOp.op = "create_group_of_every_nth" =>
        LET n == lastOp.n
            g == groups[lastOp.name]
        IN  /\ Range(g) = {i \in 0 .. (LedCount - 1) : i % n = lastOp.offset}
            /\ \A j, k \in DOMAIN g : j < k => g[j] < g[k]
            /\ EveryNthOf(n, lastOp.offset) = g
            /\ \A o1, o2 \in 0 .. (n - 1) :
                   o1 # o2 => Range(EveryNthOf(n, o1)) \cap Range(EveryNthOf(n, o2)) = {}
            /\ UNION {Range(EveryNthOf(n, o)) : o \in 0 .. (n - 1)} = 0 .. (LedCount - 1)

\* C6, its case: a group of every 3rd pixel from offset 2 was registered
\* over a group registered before.
C6_Witness ==
    /\ lastOp.op = "create_group_of_every_nth"
    /\ lastOp.n = 3
    /\ lastOp.offset = 2
    /\ calls.creates = 2
    /\ Len(groups[lastOp.name]) >= 2

\* C7: an iteration of an animation process in which the trigger category
\* has no active item, or one whose confidence is strictly below half the
\* category's average, writes nothing to any pixel array and starts no fade.
LowConfidence(w) ==
    LET active_item == Get(Snapshot, procs[w].item)
    IN  \/ active_item = None
        \/ 2 * active_item.confidence < track.confidence_average[procs[w].item]

C7_ConfidenceGate ==
    [][\A w \in Handles :
          (AtLoop(w) /\ OwnStep(w) /\ LowConfidence(w)) =>
              (arrays' = arrays /\ procs'[w].pc # "fade")]_vars

\* C7, its case: a process idles in the gate on a trigger item that is
\* present with a confidence below half the average.
C7_Witness ==
    \E w \in Handles :
        /\ procs[w].alive
        /\ procs[w].pc = "idle"
        /\ Get(Snapshot, procs[w].item) # None
        /\ LowConfidence(w)

\* C8: an animation process with nth_item = k sets and fades its group only
\* on a trigger item whose index is a multiple of k; an iteration on a
\* trigger item with index mod k # 0 writes nothing.
C8_StrideGate ==
    [][\A w \in Handles :
          (AtLoop(w) /\ OwnStep(w)) =>
              LET active_item == Get(Snapshot, procs[w].item)
              IN  /\ procs'[w].pc = "fade" =>
                         active_item # None /\ active_item.index % procs[w].nth_item = 0
                  /\ (active_item # None /\ active_item.index % procs[w].nth_item # 0) =>
                         arrays' = arrays]_vars

\* C8, its case: a process with nth_item = 2 has passed over the trigger
\* item of index 1, which the confidence gate let through.
C8_Witness ==
    \E w \in Handles :
        /\ procs[w].alive
        /\ procs[w].nth_item = 2
        /\ procs[w].pc = "loop"
        /\ Get(procs[w].last_active, procs[w].item).index = 1

\* C9: an animation process that finds the track progress at or past the
\* track duration ends and writes nothing; a process that has ended stays
\* ended, and a pixel array changes only in a step of a process that was
\* running on it.
C9_TrackEndTerminates ==
    [][/\ \A w \in Handles :
              (AtLoop(w) /\ OwnStep(w) /\ progress >= track.track_duration * 1000) =>
                  (~procs'[w].alive /\ arrays' = arrays /\ strip' = strip)
       /\ \A w \in Handles :
              ~procs[w].alive => (w \in DOMAIN procs' /\ procs'[w] = procs[w])
       /\ \A a \in DOMAIN arrays :
              arrays'[a] # arrays[a] =>
                  \E w \in Handles :
                      /\ procs[w].alive
                      /\ procs[w].pixel_array = a
                      /\ procs'[w] # procs[w]]_vars

\* C9, its case: a process has ended on the track end while playback was on.
C9_Witness ==
    /\ playing
    /\ progress >= track.track_duration * 1000
    /\ \E w \in Handles :
           /\ procs[w].kind = "anim"
           /\ procs[w].pc = "exited"

\* C10: if the track progress reaches the track duration and stays there,
\* or the snapshot becomes and stays empty, every running animation
\* process eventually ends, wherever in its loop it stands.
C10_WorkersEventuallyExit ==
    (<>[](progress >= track.track_duration * 1000) \/ <>[](~playing)) =>
        \A w \in ProcIds :
            (w \in Handles /\ procs[w].kind = "anim" /\ procs[w].alive)
                ~> (w \in Handles /\ ~procs[w].alive)

\* C10, its case: the track has ended while a process is in the middle of a
\* fade and another idles in the confidence gate.
C10_Witness ==
    /\ progress >= track.track_duration * 1000
    /\ \E w, v \in Handles :
           /\ procs[w].alive /\ procs[w].pc = "fade"
           /\ procs[v].alive /\ procs[v].pc = "idle"

\* Every pixel of the strip s shows black.
IsBlack(s) == \A i \in Pixels : s[i] = LedColor_black

\* The refresh processes running in the next state.
RunningRefreshersNext ==
    {r \in DOMAIN procs' : procs'[r].alive /\ procs'[r].kind = "refresh"}

\* C11: an animation process of a preset that polls an empty snapshot
\* (before the track end) ends without writing to any pixel array, and when
\* it has ended that way the strip shows black and no refresh process is
\* running any more.
C11_EmptySnapshotTeardown ==
    [][\A w \in Handles :
          (/\ AtLoop(w)
           /\ OwnStep(w)
           /\ progress < track.track_duration * 1000
           /\ Snapshot = EmptyDict) =>
              /\ ~procs'[w].alive
              /\ arrays' = arrays
              /\ IsBlack(strip')
              /\ RunningRefreshersNext = {}]_vars

\* C12: every change of what the strip shows is made by a refresh process:
\* a step of an animation process and a call of the controller leave the
\* strip as it was.
C12_RefreshIsSoleHardwareWriter ==
    [][strip' # strip =>
          /\ lastOp' = NoOp
          /\ procs' = procs
          /\ \E r \in RunningRefreshers : strip' = arrays[procs[r].pixel_array]]_vars

\* C13: update_group(name, color) with a name that is not registered raises
\* before any write: the call does not return normally, and every slot of
\* every pixel array and the registry are as they were before the call.
C13_UnknownGroupRaises ==
    [][(/\ lastOp'.op \in {"update_group", "update_group raised KeyError"}
        /\ lastOp'.name \notin DOMAIN groups) =>
           /\ lastOp'.op = "update_group raised KeyError"
           /\ arrays' = arrays
           /\ groups' = groups
           /\ procs' = procs
           /\ strip' = strip]_vars

\* C13, its case: update_group("B", ...) has raised while only "A" is
\* registered and holds a colour written by an earlier update_group.
C13_Witness ==
    /\ lastOp.op = "update_group raised KeyError"
    /\ lastOp.name = "B"
    /\ DOMAIN groups = {"A"}
    /\ \E i \in Pixels : arrays[pixel_array][i] # 0

\* The pixel numbers an animation process writes: its group, in the copy of
\* the registry it was started with.
WrittenBy(w) == Range(procs[w].groups[procs[w].group_name])

\* C14: any two running animation processes that write the same pixel array
\* write disjoint sets of pixel numbers, so no slot has two writers at a
\* time, whatever pattern starts, reinitialize and terminate_all calls were
\* made.
C14_DisjointWriters ==
    \A w, v \in RunningAnimations :
        (w # v /\ procs[w].pixel_array = procs[v].pixel_array) =>
            WrittenBy(w) \cap WrittenBy(v) = {}

\* C15: every running process, refresh or animation, works on the pixel
\* array the controller currently holds.
C15_SingleSharedArray ==
    \A w \in Handles : procs[w].alive => procs[w].pixel_array = pixel_array

\* C16: every running process is held by the controller, as its
\* light_refresh_loop or under some key of group_threads.
C16_NoOrphanedProcesses ==
    \A w \in Handles :
        procs[w].alive =>
            \/ w = light_refresh_loop
            \/ \E key \in DOMAIN group_threads : group_threads[key] = w

\* C17: whenever an animation process is running, a refresh process is
\* running on the same pixel array, so that what the animation process
\* writes gets shown.
C17_AnimationHasRefresh ==
    \A w \in RunningAnimations :
        \E r \in RunningRefreshers : procs[r].pixel_array = procs[w].pixel_array

\* C18: in an iteration of an animation process with palette P in which the
\* colour change category has an active item that differs from the one of
\* the process's previous snapshot, the selected colour becomes
\* P[item.index mod |P|]; in every other iteration the selected colour stays
\* as it was; and an activation sets every pixel of the group to the colour
\* selected in that iteration.
C18_ColorSelection ==
    [][\A w \in Handles :
          (AtLoop(w) /\ OwnStep(w) /\ procs'[w].alive) =>
              LET p == procs[w]
                  cc == Get(Snapshot, p.color_change_on)
                  prev == Get(p.last_active, p.color_change_on)
                  selected == IF cc # None /\ cc # prev
                              THEN p.colors[(cc.index % Len(p.colors)) + 1]
                              ELSE p.color
              IN  /\ Len(p.colors) > 0
                  /\ procs'[w].color = selected
                  /\ procs'[w].pc = "fade" =>
                         \A i \in WrittenBy(w) : arrays'[p.pixel_array][i] = selected]_vars

\* C18, its case: the all_beat process (palette of two colours, colour
\* change on beats) has activated on the beat of index 2 with the palette's
\* first colour, while the every_2nd_beat process (colour change on bars)
\* keeps the colour it selected on bar 0 over the beats 0 and 1.
C18_Witness ==
    \E w, v \in Handles :
        /\ procs[w].alive
        /\ procs[w].pc = "fade"
        /\ procs[w].colors = AllBeatColors
        /\ procs[w].now_active["beats"].index = 2
        /\ procs[w].color = AllBeatColors[1]
        /\ \A i \in WrittenBy(w) : arrays[procs[w].pixel_array][i] = AllBeatColors[1]
        /\ procs[v].alive
        /\ procs[v].colors = SecondBeatColors
        /\ procs[v].color = SecondBeatColors[2]

\* C19: an activation sets every pixel of the group, and no other pixel, to
\* the selected colour; the fade that follows writes only the pixels of the
\* group, and when it has completed every pixel of the group holds black.
C19_FadeEndsBlack ==
    [][\A w \in Handles :
          (procs[w].alive /\ procs[w].kind = "anim" /\ OwnStep(w)) =>
              LET a == procs[w].pixel_array
              IN  /\ (AtLoop(w) /\ procs'[w].pc = "fade") =>
                         \A i \in Pixels :
                             arrays'[a][i] = IF i \in WrittenBy(w)
                                             THEN procs'[w].color
                                             ELSE arrays[a][i]
                  /\ (procs[w].pc = "fade" /\ procs'[w].pc = "loop") =>
                         \A i \in Pixels :
                             arrays'[a][i] = IF i \in WrittenBy(w)
                                             THEN LedColor_black
                                             ELSE arrays[a][i]]_vars

\* The index of the trigger item in a snapshot, -1 when there is none.
TriggerIndex(snapshot, item) == Get(snapshot, item).index

\* C20: with the track progress non-decreasing, an animation process runs
\* the set-plus-fade sequence at most once for any trigger item.  In steps:
\* an activation happens only on a trigger item later than the one of
\* last_active; the fade ends with that item as the one of last_active;
\* and the trigger item of last_active never goes back to an earlier one
\* while the process runs (a confidence-gated iteration leaves last_active
\* as it is).  So after an activation on an item, every later activation of
\* that process is on a later item.
C20_OneActivationPerItem ==
    [][\A w \in Handles :
          (procs[w].alive /\ procs[w].kind = "anim" /\ OwnStep(w)) =>
              LET p == procs[w]
                  q == procs'[w]
              IN  /\ (AtLoop(w) /\ q.pc = "fade") =>
                         /\ TriggerIndex(p.last_active, p.item)
                                < TriggerIndex(Snapshot, p.item)
                         /\ q.now_active = Snapshot
                         /\ q.last_active = p.last_active
                  /\ (p.pc = "fade" /\ q.pc = "loop") =>
                         q.last_active = p.now_active
                  /\ q.alive =>
                         TriggerIndex(p.last_active, p.item)
                             <= TriggerIndex(q.last_active, p.item)
                  /\ (AtLoop(w) /\ q.pc = "idle") => q.last_active = p.last_active]_vars

\* C20, its case: the all_beat process has activated on the beat of index 2
\* and completed its fade, and sits in the confidence gate on the beat of
\* index 3 with last_active still at the beat of index 2.
C20_Witness ==
    \E w \in Handles :
        /\ procs[w].alive
        /\ procs[w].pc = "idle"
        /\ procs[w].nth_item = 1
        /\ TriggerIndex(procs[w].last_active, "beats") = 2
        /\ TriggerIndex(Snapshot, "beats") = 3
        /\ \A i \in WrittenBy(w) :
               arrays[procs[w].pixel_array][i] = Color(2, 0, 0)

====
